---- MODULE Spec2Model ----
(***************************************************************************)
(* MotdPE: the Bedrock unconnected-ping prober of src/src/motdpe/MotdPE.cpp *)
(* as a state machine.  One probe is one invocation of QueryMotdImpl        *)
(* through one of the three entry points; the operating system, the name    *)
(* service, the servers and third-party senders are the environment.        *)
(***************************************************************************)
EXTENDS Integers, Sequences, FiniteSets, TLC

\* ------------------------------------------------------------ constants

\* offset of the MOTD in a reply: `recvLen > 35`, `recvBuf.data() + 35`
HeaderLen == 35
\* std::array<std::byte, 1024> recvBuf
RecvBufSize == 1024

\* bounds of the model
MaxCands == 2
MaxPayload == 1
MaxOver == 1

\* static constexpr std::array<std::byte, 33> queryBuf
queryBufWrongByte ==
    << 1, 0, 0, 0, 0, 0, 0, 0, 0,
       0, 255, 255, 0, 254, 254, 254, 254, 253, 253, 253, 253, 18, 52, 86, 120,
       156, 24, 40, 127, 225, 100, 137, 141 >>
queryBuf ==
    << 1, 0, 0, 0, 0, 255, 255, 193, 29,
       0, 255, 255, 0, 254, 254, 254, 254, 253, 253, 253, 253, 18, 52, 86, 120,
       156, 24, 40, 127, 225, 100, 137, 141 >>

\* an indeterminate byte of the uninitialised receive buffer
Indet == -1

Probes == {"p1", "p2"}
Platforms == {"posix", "win32"}
Kinds == {"sync", "future", "cont"}
Hosts == {"nx", "multi", "ip1"}
AsyncHosts == {"nx", "ip1"}
Ports == {19132, 19133}
Timeouts == {-250, 0, 250, 1250}
\* what follows the characters of a host view in memory: a terminator, the
\* character x and a terminator, or memory that is not the caller's
Tails == {"", "x", "?"}

Min(a, b) == IF a < b THEN a ELSE b

\* ------------------------------------------------------------ arithmetic

\* C++ integer division and remainder truncate toward zero
CDiv(a, b) == IF a >= 0 THEN a \div b ELSE -((-a) \div b)
CMod(a, b) == a - b * CDiv(a, b)

\* tv.tv_sec = static_cast<long>(timeoutMs / 1000)
TvSecRoundUp(ms) == CDiv(ms + 999, 1000)
TvSec(ms) == CDiv(ms, 1000)
\* tv.tv_usec = static_cast<long>((timeoutMs % 1000) * 1000)
TvUsecDropped(ms) == 0
TvUsec(ms) == CMod(ms, 1000) * 1000
\* DWORD winTimeout = static_cast<DWORD>(timeoutMs): the value modulo 2^32,
\* written low + wraps * 2^32 (TLC's integers are 32 bits wide)
WinTimeout(ms) == [wraps |-> IF ms < 0 THEN 1 ELSE 0, low |-> ms]

\* the option value handed to setsockopt(SO_RCVTIMEO)
TimeoutOption(plat, ms) ==
    IF plat = "win32"
    THEN [set |-> TRUE, sec |-> 0, usec |-> 0,
          ms |-> WinTimeout(ms).low, wraps |-> WinTimeout(ms).wraps]
    ELSE [set |-> TRUE, sec |-> TvSec(ms), usec |-> TvUsec(ms), ms |-> 0, wraps |-> 0]

\* the kernel's check of a timeval (EDOM outside the range); a DWORD always fits
KernelAccepts(plat, o) ==
    plat = "win32" \/ (o.sec >= 0 /\ o.usec >= 0 /\ o.usec < 1000000)

\* the wait the socket layer applies, in microseconds (plus wraps * 2^32 ms):
\* zero means block without limit
WaitUs(plat, o) == IF plat = "win32" THEN o.ms * 1000 ELSE o.sec * 1000000 + o.usec

NoOpt == [mode |-> "unset", us |-> 0, wraps |-> 0]
OptOf(plat, o) ==
    [mode |-> IF WaitUs(plat, o) = 0 /\ o.wraps = 0 THEN "forever" ELSE "timed",
     us |-> WaitUs(plat, o), wraps |-> o.wraps]

\* ------------------------------------------------------------ environment

\* getaddrinfo: the status and the candidate list a host may resolve to: an
\* unknown name gives EAI_NONAME, a literal address one candidate, a name
\* one or more
CandList(h, n) == [k \in 1..n |-> <<h, k>>]
GaiResults(h) ==
    CASE h = "multi" -> {[status |-> 0, list |-> CandList(h, n)] : n \in 1..MaxCands}
      [] h \in {"ip1", "ip2"} -> {[status |-> 0, list |-> CandList(h, 1)]}
      [] OTHER -> {[status |-> -2, list |-> << >>]}

HostCode(h) ==
    CASE h = "multi" -> 0
      [] h = "ip1" -> 64
      [] h = "ip2" -> 128
      [] OTHER -> 192

\* the datagram a sender emits: every sender has its own bytes at every offset
Salt(a) == HostCode(a[1]) + a[2]
SenderByte(a, off) == (Salt(a) + off) % 256
Datagram(a, len) == LET s == Salt(a) IN [i \in 1..len |-> (s + i - 1) % 256]

ReplyLens ==
    {0, HeaderLen} \cup ((HeaderLen + 1)..(HeaderLen + MaxPayload))
        \cup (RecvBufSize..(RecvBufSize + MaxOver))
StrayLens == {HeaderLen, HeaderLen + 1}
StraySender == <<"stray", 0>>

\* ------------------------------------------------------------ state

VARIABLES
    platform,    \* the build: the #ifdef _WIN32 branches
    terminated,  \* std::terminate was called
    net,         \* probe datagrams on their way to a server
    rxq,         \* the receive queue of the current socket: sender and length
    pc,          \* where each probe is
    args,        \* the entry point and its arguments
    node,        \* the name handed to getaddrinfo
    res,         \* the addrinfo list: "null", "live", "freed"
    cands,       \* the resolved candidates, in resolution order
    idx,         \* addr: the position of the loop in cands
    sock,        \* the SocketHandle of the current attempt
    tv,          \* the option value built for setsockopt
    recvBuf,     \* recvBuf, by the invocation owning it
    recvLen,     \* recvLen
    success,     \* success
    result,      \* result
    outcome,     \* what QueryMotdImpl returned or threw
    caught,      \* the exception in flight inside the continuation thread
    delivered,   \* what reached the caller: returns, raises, continuation calls
    last,        \* how the last recvfrom ended
    ended,       \* how each candidate's attempt ended, in order
    stats,       \* system calls made by the probe so far
    wire         \* the byte sequences the probe transmitted

vars ==
    << platform, terminated, net, rxq, pc, args, node, res, cands, idx, sock, tv, recvBuf,
       recvLen, success, result, outcome, caught, delivered, last, ended, stats,
       wire >>

\* a buffer is held as the bytes written so far; the bytes behind them, up to
\* its size, are indeterminate
NoBuf == [live |-> FALSE, bytes |-> << >>]
FreshBuf == [live |-> TRUE, bytes |-> << >>]

NoArgs ==
    [kind |-> "none", host |-> "", tail |-> "", port |-> 0, timeout |-> 0,
     onSuccess |-> "none", onError |-> "none"]
NoExc == [k |-> "none", host |-> "", port |-> 0]
NoOutcome == [state |-> "none", value |-> << >>, exc |-> NoExc]
NoSock == [open |-> FALSE, opt |-> NoOpt, sends |-> 0, recvs |-> 0]
NoSender == <<"", 0>>
NoLast ==
    [how |-> "none", waited |-> 0, wraps |-> 0, src |-> NoSender, len |-> 0,
     sends |-> 0, recvs |-> 0, cand |-> NoSender]
NoStats == [opened |-> 0, closed |-> 0, sends |-> 0, recvs |-> 0, freed |-> 0]
NoTv == [set |-> FALSE, sec |-> 0, usec |-> 0, ms |-> 0, wraps |-> 0]

\* the exceptions of the program
DnsError == [k |-> "dns", host |-> "", port |-> 0]
AllFailedError(h, p) == [k |-> "all_failed", host |-> h, port |-> p]
WsaError == [k |-> "wsa", host |-> "", port |-> 0]
UnknownError == [k |-> "unknown", host |-> "", port |-> 0]
UserStdError == [k |-> "user_std", host |-> "", port |-> 0]
UserOtherError == [k |-> "user_other", host |-> "", port |-> 0]

\* recvBuf is a local variable of each invocation of QueryMotdImpl
BufOwnerStatic(t) == "p1"
BufOwner(t) == t

SockId(t) == <<t, idx[t]>>

InitCommon ==
    /\ platform \in Platforms
    /\ terminated = FALSE
    /\ net = {}
    /\ rxq = [t \in Probes |-> << >>]
    /\ args = [t \in Probes |-> NoArgs]
    /\ node = [t \in Probes |-> ""]
    /\ res = [t \in Probes |-> "null"]
    /\ cands = [t \in Probes |-> << >>]
    /\ idx = [t \in Probes |-> 1]
    /\ sock = [t \in Probes |-> NoSock]
    /\ tv = [t \in Probes |-> NoTv]
    /\ recvBuf = [t \in Probes |-> NoBuf]
    /\ recvLen = [t \in Probes |-> 0]
    /\ success = [t \in Probes |-> FALSE]
    /\ result = [t \in Probes |-> << >>]
    /\ outcome = [t \in Probes |-> NoOutcome]
    /\ caught = [t \in Probes |-> NoExc]
    /\ delivered = [t \in Probes |-> << >>]
    /\ last = [t \in Probes |-> NoLast]
    /\ ended = [t \in Probes |-> << >>]
    /\ stats = [t \in Probes |-> NoStats]
    /\ wire = [t \in Probes |-> {}]

\* one caller, one probe
Init ==
    /\ InitCommon
    /\ pc = [t \in Probes |-> IF t = "p1" THEN "idle" ELSE "unused"]

\* ------------------------------------------------------------ entry points

\* queryMotd, queryMotdAsync (future), queryMotdAsync (continuations): the
\* arguments a caller may pass; std::function continuations are empty or set
\* (the asynchronous forms are driven against a literal address and an
\* unresolvable name, on the default port); the host is a std::string_view,
\* whose characters may be followed in memory by a terminator or by more
LaunchArgs ==
    [kind : {"sync"}, host : Hosts, tail : {""}, port : Ports, timeout : Timeouts,
     onSuccess : {"none"}, onError : {"none"}]
    \cup [kind : {"future"}, host : AsyncHosts, tail : {""}, port : {19132},
          timeout : Timeouts, onSuccess : {"none"}, onError : {"none"}]
    \cup [kind : {"cont"}, host : AsyncHosts, tail : {""}, port : {19132},
          timeout : Timeouts, onSuccess : {"empty", "set"}, onError : {"empty", "set"}]
    \cup [kind : {"sync", "future"}, host : {"ip1"}, tail : Tails \ {""},
          port : {19132}, timeout : {250}, onSuccess : {"none"}, onError : {"none"}]
    \cup [kind : {"cont"}, host : {"ip1"}, tail : Tails \ {""}, port : {19132},
          timeout : {250}, onSuccess : {"set"}, onError : {"set"}]

\* the call enters QueryMotdImpl: on the caller's thread, on std::async's
\* thread or on the detached std::thread
Launch(t) ==
    /\ ~terminated
    /\ pc[t] = "idle"
    /\ \E a \in LaunchArgs : args' = [args EXCEPT ![t] = a]
    /\ pc' = [pc EXCEPT ![t] = "start"]
    /\ UNCHANGED << platform, terminated, net, rxq, node, res, cands, idx, sock, tv,
                    recvBuf, recvLen, success, result, outcome, caught, delivered,
                    last, ended, stats, wire >>

\* two continuation-based probes, each against the server of its own literal
\* address
ConcHost(t) == IF t = "p1" THEN "ip1" ELSE "ip2"
ConcLaunch(t) ==
    /\ ~terminated
    /\ pc[t] = "idle"
    /\ args' = [args EXCEPT ![t] =
                    [kind |-> "cont", host |-> ConcHost(t), tail |-> "", port |-> 19132,
                     timeout |-> 250, onSuccess |-> "set", onError |-> "set"]]
    /\ pc' = [pc EXCEPT ![t] = "start"]
    /\ UNCHANGED << platform, terminated, net, rxq, node, res, cands, idx, sock, tv,
                    recvBuf, recvLen, success, result, outcome, caught, delivered,
                    last, ended, stats, wire >>

\* ------------------------------------------------------------ QueryMotdImpl

\* the host parameter of QueryMotdImpl: queryMotd passes the caller's view
\* on, the asynchronous forms a view of their own copy std::string(host)
ImplHost(a) ==
    IF a.kind = "sync" THEN [chars |-> a.host, tail |-> a.tail]
    ELSE [chars |-> a.host, tail |-> ""]

\* host.data() read as a C string by getaddrinfo: the characters up to the
\* first terminator in memory; beyond the caller's buffer any may be found
CStr(v) ==
    IF v.tail = "?" THEN {v.chars \o x : x \in Tails \ {"?"}}
    ELSE {v.chars \o v.tail}

\* `if (const int status = getaddrinfo(...); status != 0) throw ...`
GaiIgnored(status) == FALSE
GaiFailed(status) == status # 0

\* `static const SocketInitializer initializer` (Windows): constructed by the
\* first call that gets past it, so it stands once a call has reached
\* getaddrinfo; its constructor throws when WSAStartup fails
Initialized == \E u \in Probes : node[u] # ""
StartupMayFail(plat) == plat = "win32"

\* the static initialiser, then getaddrinfo; a failure throws "DNS resolution
\* failed"; then the locals are declared, recvBuf without an initialiser, and
\* the loop condition is evaluated on the head of the list
Resolve(t) ==
    /\ ~terminated
    /\ pc[t] = "start"
    /\ \/ /\ StartupMayFail(platform) /\ ~Initialized
          /\ outcome' = [outcome EXCEPT ![t] =
                            [state |-> "exception", value |-> << >>, exc |-> WsaError]]
          /\ pc' = [pc EXCEPT ![t] = "ret"]
          /\ UNCHANGED << node, res, cands, recvBuf >>
       \/ /\ node' \in {[node EXCEPT ![t] = n] : n \in CStr(ImplHost(args[t]))}
          /\ \E r \in GaiResults(node'[t]) :
                IF GaiFailed(r.status)
                THEN /\ outcome' = [outcome EXCEPT ![t] =
                                       [state |-> "exception", value |-> << >>,
                                        exc |-> DnsError]]
                     /\ pc' = [pc EXCEPT ![t] = "ret"]
                     /\ UNCHANGED << res, cands, recvBuf >>
                ELSE /\ cands' = [cands EXCEPT ![t] = r.list]
                     /\ res' = [res EXCEPT ![t] = IF r.list = << >> THEN "null" ELSE "live"]
                     /\ recvBuf' = [recvBuf EXCEPT ![BufOwner(t)] = FreshBuf]
                     /\ pc' = [pc EXCEPT ![t] = IF r.list = << >> THEN "after" ELSE "loop"]
                     /\ UNCHANGED outcome
    /\ UNCHANGED << platform, terminated, net, rxq, args, idx, sock, tv, recvLen,
                    success, result, caught, delivered, last, ended, stats, wire >>

\* a closed socket's unanswered probes get no answer any more
Purged(n, s) == {d \in n : d.src # s}

\* the end of one iteration of the for loop: ~SocketHandle closes the socket,
\* addr = addr->ai_next, and the loop condition is evaluated
\* `SocketHandle sock{...}` is local to the loop body: the handle ends with
\* the iteration
Kept(s) == s
Released(s) == NoSock

\* `addr = addr->ai_next`
SameAddr(i) == i
NextAddr(i) == i + 1

\* (the attempt is recorded with its candidate and the sendto and recvfrom
\* calls made on its socket, a failed sendto included)
EndAttempt(t, how, next) ==
    /\ ended' = [ended EXCEPT ![t] =
                    Append(@, [last'[t] EXCEPT
                                  !.how = how,
                                  !.sends = sock[t].sends + IF how = "send" THEN 1 ELSE 0,
                                  !.recvs = sock[t].recvs,
                                  !.cand = cands[t][idx[t]]])]
    /\ sock' = [sock EXCEPT ![t] = Released(@)]
    /\ net' = IF sock[t].open THEN Purged(net, SockId(t)) ELSE net
    /\ rxq' = [rxq EXCEPT ![t] = << >>]
    /\ idx' = [idx EXCEPT ![t] = IF next = "after" THEN @ ELSE NextAddr(@)]
    /\ pc' = [pc EXCEPT ![t] =
                 IF next = "after" \/ idx'[t] > Len(cands[t]) THEN "after" ELSE "loop"]

\* ~SocketHandle: close() calls closesocket/::close on a valid handle
ClosedNever(t) == 0
Closed(t) == IF sock[t].open THEN 1 ELSE 0

\* `continue` goes on with the next candidate
OnFailureStop == "after"
OnFailure == "continue"

\* socket(addr->ai_family, SOCK_DGRAM, IPPROTO_UDP); `if (!sock) continue`
Socket(t) ==
    /\ ~terminated
    /\ pc[t] = "loop"
    /\ last' = [last EXCEPT ![t] = NoLast]
    /\ \/ /\ sock' = [sock EXCEPT ![t] = [NoSock EXCEPT !.open = TRUE]]
          /\ stats' = [stats EXCEPT ![t].opened = @ + 1]
          /\ pc' = [pc EXCEPT ![t] = "setsockopt"]
          /\ UNCHANGED << net, rxq, idx, ended >>
       \/ /\ EndAttempt(t, "nosocket", OnFailure)
          /\ UNCHANGED stats
    /\ UNCHANGED << platform, terminated, args, node, res, cands, tv, recvBuf, recvLen,
                    success, result, outcome, caught, delivered, wire >>

\* setsockopt(sock, SOL_SOCKET, SO_RCVTIMEO, ...): SOCKET_ERROR continues
SetSockOpt(t) ==
    /\ ~terminated
    /\ pc[t] = "setsockopt"
    /\ tv' = [tv EXCEPT ![t] = TimeoutOption(platform, args[t].timeout)]
    /\ UNCHANGED last
    /\ \/ /\ KernelAccepts(platform, tv'[t])
          /\ sock' = [sock EXCEPT ![t].opt = OptOf(platform, tv'[t])]
          /\ pc' = [pc EXCEPT ![t] = "sendto"]
          /\ UNCHANGED << net, rxq, idx, ended, stats >>
       \/ /\ EndAttempt(t, "sockopt", OnFailure)
          /\ stats' = [stats EXCEPT ![t].closed = @ + Closed(t)]
    /\ UNCHANGED << platform, terminated, args, node, res, cands, recvBuf, recvLen,
                    success, result, outcome, caught, delivered, wire >>

\* sendto(sock, queryBuf.data(), queryBuf.size(), 0, addr->ai_addr, ...)
SendTo(t) ==
    /\ ~terminated
    /\ pc[t] = "sendto"
    /\ UNCHANGED last
    /\ \/ /\ net' = net \cup {[dst |-> cands[t][idx[t]], src |-> SockId(t),
                               data |-> SubSeq(queryBuf, 1, Len(queryBuf))]}
          /\ wire' = [wire EXCEPT ![t] = @ \cup {SubSeq(queryBuf, 1, Len(queryBuf))}]
          /\ sock' = [sock EXCEPT ![t].sends = @ + 1]
          /\ stats' = [stats EXCEPT ![t].sends = @ + 1]
          /\ pc' = [pc EXCEPT ![t] = "recvfrom"]
          /\ UNCHANGED << rxq, idx, ended >>
       \/ /\ EndAttempt(t, "send", OnFailure)
          /\ stats' = [stats EXCEPT ![t].sends = @ + 1, ![t].closed = @ + Closed(t)]
          /\ UNCHANGED wire
    /\ UNCHANGED << platform, terminated, args, node, res, cands, tv, recvBuf, recvLen,
                    success, result, outcome, caught, delivered >>

\* a byte of the buffer; outside the bytes written it is indeterminate
BufByte(buf, i) == IF i >= 1 /\ i <= Len(buf.bytes) THEN buf.bytes[i] ELSE Indet

\* the buffer after n bytes of datagram data were copied to its start
Max(a, b) == IF a > b THEN a ELSE b
Written(buf, data, n) ==
    [buf EXCEPT !.bytes =
        [i \in 1..Max(n, Len(buf.bytes)) |-> IF i <= n THEN data[i] ELSE buf.bytes[i]]]

\* what recvfrom returns for a datagram of n bytes: a longer one is cut to the
\* buffer (POSIX) or refused with WSAEMSGSIZE (Winsock), the buffer filled
RecvLenFor(plat, n) ==
    IF n <= RecvBufSize THEN n ELSE IF plat = "win32" THEN -1 ELSE RecvBufSize

\* recvfrom(sock, recvBuf.data(), recvBuf.size(), 0, &fromAddr, &fromLen):
\* the first queued datagram, whoever sent it; with none queued the wait ends
\* by the socket's timeout or by an error
RecvFrom(t) ==
    /\ ~terminated
    /\ pc[t] = "recvfrom"
    /\ \/ /\ rxq[t] # << >>
          /\ LET d == Head(rxq[t]) IN
                /\ rxq' = [rxq EXCEPT ![t] = Tail(@)]
                /\ recvBuf' = [recvBuf EXCEPT ![BufOwner(t)] =
                                  Written(@, Datagram(d.src, d.len), Min(d.len, RecvBufSize))]
                /\ recvLen' = [recvLen EXCEPT ![t] = RecvLenFor(platform, d.len)]
                /\ last' = [last EXCEPT ![t] =
                               [NoLast EXCEPT !.how = "datagram", !.src = d.src,
                                               !.len = d.len]]
       \/ /\ rxq[t] = << >>
          /\ sock[t].opt.mode = "timed"
          /\ recvLen' = [recvLen EXCEPT ![t] = -1]
          /\ last' = [last EXCEPT ![t] =
                         [NoLast EXCEPT !.how = "timeout", !.waited = sock[t].opt.us,
                                         !.wraps = sock[t].opt.wraps]]
          /\ UNCHANGED << rxq, recvBuf >>
       \/ /\ rxq[t] = << >>
          /\ recvLen' = [recvLen EXCEPT ![t] = -1]
          /\ last' = [last EXCEPT ![t] = [NoLast EXCEPT !.how = "error"]]
          /\ UNCHANGED << rxq, recvBuf >>
    /\ sock' = [sock EXCEPT ![t].recvs = @ + 1]
    /\ stats' = [stats EXCEPT ![t].recvs = @ + 1]
    /\ pc' = [pc EXCEPT ![t] = "check"]
    /\ UNCHANGED << platform, terminated, net, args, node, res, cands, idx, tv, success,
                    result, outcome, caught, delivered, ended, wire >>

\* `if (recvLen > 35) { result.assign(recvBuf.data() + 35, recvLen - 35); ... }`
IsReplyAny(n) == n >= 0
IsReply(n) == n > HeaderLen
PayloadFromHeader(buf, n) == [i \in 1..(n - HeaderLen + 1) |-> BufByte(buf, HeaderLen + i - 1)]
Payload(buf, n) == [i \in 1..(n - HeaderLen) |-> BufByte(buf, HeaderLen + i)]

\* `success = true; break;` leaves the loop
OnReplyContinue == "continue"
OnReply == "after"

Check(t) ==
    /\ ~terminated
    /\ pc[t] = "check"
    /\ UNCHANGED last
    /\ IF IsReply(recvLen[t])
       THEN /\ result' = [result EXCEPT ![t] = Payload(recvBuf[BufOwner(t)], recvLen[t])]
            /\ success' = [success EXCEPT ![t] = TRUE]
            /\ EndAttempt(t, "ok", OnReply)
       ELSE /\ EndAttempt(t, IF last[t].how # "datagram" THEN last[t].how
                             ELSE IF recvLen[t] < 0 THEN "oversize" ELSE "short",
                          OnFailure)
            /\ UNCHANGED << result, success >>
    /\ stats' = [stats EXCEPT ![t].closed = @ + Closed(t)]
    /\ UNCHANGED << platform, terminated, args, node, res, cands, tv, recvBuf, recvLen,
                    outcome, caught, delivered, wire >>

\* ~AddrInfoPtr: `if (mAddrInfo) freeaddrinfo(mAddrInfo)`
LeakList(r) == r
FreeList(r) == IF r = "live" THEN "freed" ELSE r

\* after the loop: throw "All connection attempts failed" or return result;
\* ~AddrInfoPtr frees the list and the locals go out of scope
Finish(t) ==
    /\ ~terminated
    /\ pc[t] = "after"
    /\ res' = [res EXCEPT ![t] = FreeList(@)]
    /\ stats' = [stats EXCEPT ![t].freed = @ + IF res[t] # res'[t] THEN 1 ELSE 0]
    /\ outcome' = [outcome EXCEPT ![t] =
                      IF success[t]
                      THEN [state |-> "value", value |-> result[t], exc |-> NoExc]
                      ELSE [state |-> "exception", value |-> << >>,
                            exc |-> AllFailedError(args[t].host, args[t].port)]]
    /\ recvBuf' = [recvBuf EXCEPT ![BufOwner(t)] = NoBuf]
    /\ result' = [result EXCEPT ![t] = << >>]
    /\ pc' = [pc EXCEPT ![t] = "ret"]
    /\ UNCHANGED << platform, terminated, net, rxq, args, node, cands, idx, sock, tv,
                    recvLen, success, caught, delivered, last, ended, wire >>

\* ------------------------------------------------------------ the network

\* a server answers an unconnected ping with its pong, addressed to the
\* socket the ping came from
ServerReply ==
    /\ ~terminated
    /\ \E d \in net :
          /\ net' = net \ {d}
          /\ \E len \in ReplyLens :
                rxq' = [rxq EXCEPT ![d.src[1]] = Append(@, [src |-> d.dst, len |-> len])]
    /\ UNCHANGED << platform, terminated, pc, args, node, res, cands, idx, sock, tv, recvBuf,
                    recvLen, success, result, outcome, caught, delivered, last,
                    ended, stats, wire >>

\* a third party sends a datagram to the port of a waiting socket (behind a
\* datagram already queued it would never be read)
Stray(t) ==
    /\ ~terminated
    /\ pc[t] = "recvfrom"
    /\ rxq[t] = << >>
    /\ \E len \in StrayLens :
          rxq' = [rxq EXCEPT ![t] = Append(@, [src |-> StraySender, len |-> len])]
    /\ UNCHANGED << platform, terminated, net, pc, args, node, res, cands, idx, sock, tv,
                    recvBuf, recvLen, success, result, outcome, caught, delivered,
                    last, ended, stats, wire >>

\* ------------------------------------------------------------ the adapters

Delivery(via, o) == [via |-> via, value |-> o.value, exc |-> o.exc]
ErrorDelivery(e) == [via |-> "onError", value |-> << >>, exc |-> e]

\* queryMotd: the value or the exception reaches the caller
SyncReturn(t) ==
    /\ ~terminated
    /\ pc[t] = "ret"
    /\ args[t].kind = "sync"
    /\ delivered' = [delivered EXCEPT ![t] =
                        Append(@, Delivery(IF outcome[t].state = "value"
                                           THEN "return" ELSE "raise", outcome[t]))]
    /\ pc' = [pc EXCEPT ![t] = "done"]
    /\ UNCHANGED << platform, terminated, net, rxq, args, node, res, cands, idx, sock, tv,
                    recvBuf, recvLen, success, result, outcome, caught, last, ended,
                    stats, wire >>

\* queryMotdAsync returning std::future: get() yields the value or rethrows
FutureGet(t) ==
    /\ ~terminated
    /\ pc[t] = "ret"
    /\ args[t].kind = "future"
    /\ delivered' = [delivered EXCEPT ![t] =
                        Append(@, Delivery(IF outcome[t].state = "value"
                                           THEN "get_value" ELSE "get_raise", outcome[t]))]
    /\ pc' = [pc EXCEPT ![t] = "done"]
    /\ UNCHANGED << platform, terminated, net, rxq, args, node, res, cands, idx, sock, tv,
                    recvBuf, recvLen, success, result, outcome, caught, last, ended,
                    stats, wire >>

\* the try block of the detached thread: `if (onSuccess) onSuccess(result)`;
\* what the continuation throws is caught by the handlers below
ContOnSuccess(t) ==
    /\ ~terminated
    /\ pc[t] = "ret"
    /\ args[t].kind = "cont"
    /\ outcome[t].state = "value"
    /\ IF args[t].onSuccess = "set"
       THEN /\ delivered' = [delivered EXCEPT ![t] =
                                Append(@, Delivery("onSuccess", outcome[t]))]
            /\ \/ /\ pc' = [pc EXCEPT ![t] = "done"]
                  /\ UNCHANGED caught
               \/ /\ pc' = [pc EXCEPT ![t] = "catch"]
                  /\ \E e \in {UserStdError, UserOtherError} :
                        caught' = [caught EXCEPT ![t] = e]
       ELSE /\ pc' = [pc EXCEPT ![t] = "done"]
            /\ UNCHANGED << delivered, caught >>
    /\ UNCHANGED << platform, terminated, net, rxq, args, node, res, cands, idx, sock, tv,
                    recvBuf, recvLen, success, result, outcome, last, ended, stats,
                    wire >>

\* QueryMotdImpl threw: control goes to `catch (const std::exception& e)`
ContThrow(t) ==
    /\ ~terminated
    /\ pc[t] = "ret"
    /\ args[t].kind = "cont"
    /\ outcome[t].state = "exception"
    /\ caught' = [caught EXCEPT ![t] = outcome[t].exc]
    /\ pc' = [pc EXCEPT ![t] = "catch"]
    /\ UNCHANGED << platform, terminated, net, rxq, args, node, res, cands, idx, sock, tv,
                    recvBuf, recvLen, success, result, outcome, delivered, last,
                    ended, stats, wire >>

\* `catch (const std::exception& e)` passes e, `catch (...)` passes
\* std::runtime_error("Unknown exception")
Handed(e) == IF e.k = "user_other" THEN UnknownError ELSE e

\* the two handlers: `if (onError) onError(...)`; an exception leaving
\* onError leaves the thread function, which calls std::terminate
ContCatch(t) ==
    /\ ~terminated
    /\ pc[t] = "catch"
    /\ IF args[t].onError = "set"
       THEN /\ delivered' = [delivered EXCEPT ![t] =
                                Append(@, ErrorDelivery(Handed(caught[t])))]
            /\ \/ /\ pc' = [pc EXCEPT ![t] = "done"]
                  /\ UNCHANGED terminated
               \/ /\ pc' = [pc EXCEPT ![t] = "terminate"]
                  /\ terminated' = TRUE
       ELSE /\ pc' = [pc EXCEPT ![t] = "done"]
            /\ UNCHANGED << delivered, terminated >>
    /\ UNCHANGED << platform, net, rxq, args, node, res, cands, idx, sock, tv, recvBuf,
                    recvLen, success, result, outcome, caught, last, ended, stats,
                    wire >>

\* ------------------------------------------------------------ specifications

Probe(t) ==
    \/ Resolve(t)
    \/ Socket(t)
    \/ SetSockOpt(t)
    \/ SendTo(t)
    \/ RecvFrom(t)
    \/ Check(t)
    \/ Finish(t)

Next ==
    \/ \E t \in Probes : Launch(t)
    \/ \E t \in Probes : Probe(t)
    \/ ServerReply
    \/ \E t \in Probes : Stray(t)
    \/ \E t \in Probes : SyncReturn(t)
    \/ \E t \in Probes : FutureGet(t)
    \/ \E t \in Probes : ContOnSuccess(t)
    \/ \E t \in Probes : ContThrow(t)
    \/ \E t \in Probes : ContCatch(t)

Spec == Init /\ [][Next]_vars

\* the thread of a call runs on: every statement of the probe routine is
\* executed in the end, and recvfrom returns once a datagram is queued or the
\* socket's receive timeout, if it has one, has expired; nothing makes a
\* server reply, a third party send or recvfrom fail
RecvReturns(t) == RecvFrom(t) /\ (rxq[t] # << >> \/ sock[t].opt.mode = "timed")

ProgramStep(t) ==
    \/ Resolve(t)
    \/ Socket(t)
    \/ SetSockOpt(t)
    \/ SendTo(t)
    \/ RecvReturns(t)
    \/ Check(t)
    \/ Finish(t)

Fairness == \A t \in Probes : WF_vars(ProgramStep(t))

SpecLive == Init /\ [][Next]_vars /\ Fairness

\* two continuation-based probes run concurrently, the servers being the
\* only senders
InitConc ==
    /\ InitCommon
    /\ pc = [t \in Probes |-> "idle"]

NextConc ==
    \/ \E t \in Probes : ConcLaunch(t)
    \/ \E t \in Probes : Probe(t)
    \/ ServerReply
    \/ \E t \in Probes : ContOnSuccess(t)
    \/ \E t \in Probes : ContThrow(t)
    \/ \E t \in Probes : ContCatch(t)

SpecConc == InitConc /\ [][NextConc]_vars

\* ------------------------------------------------------------ properties

\* the probe routine of t has returned or thrown
Left(t) == outcome[t].state # "none"
Failed(t) == outcome[t].state = "exception" /\ outcome[t].exc.k = "all_failed"
Returned(t, v) == delivered[t] = << [via |-> "return", value |-> v, exc |-> NoExc] >>

\* bytes 35 .. len-1 of the datagram a sender emitted
SentPayload(src, len) == SubSeq(Datagram(src, len), HeaderLen + 1, len)

\* C1 (as stated): whenever the datagram the probe received is longer than 35
\* bytes, whatever its length, the call returns exactly its bytes from offset
\* 35 through its last byte.
C1_AnyLength ==
    \A t \in Probes :
        (Left(t) /\ last[t].how = "datagram" /\ last[t].len > HeaderLen)
            => /\ outcome[t].state = "value"
               /\ outcome[t].value = SentPayload(last[t].src, last[t].len)

\* C1 (amended): whenever the datagram the probe received is longer than 35
\* bytes and no longer than the 1024-byte receive buffer, the probe routine
\* returns exactly its bytes from offset 35 through its last byte, and
\* queryMotd hands exactly those bytes to its caller.
C1_PayloadExact ==
    \A t \in Probes :
        (Left(t) /\ last[t].how = "datagram"
                 /\ last[t].len > HeaderLen /\ last[t].len <= RecvBufSize)
            => /\ outcome[t].state = "value"
               /\ outcome[t].value = SentPayload(last[t].src, last[t].len)
               /\ Len(outcome[t].value) = last[t].len - HeaderLen
               /\ (args[t].kind = "sync" /\ pc[t] = "done")
                      => Returned(t, SentPayload(last[t].src, last[t].len))

C1_Witness ==
    \E t \in Probes :
        /\ args[t].kind = "sync" /\ pc[t] = "done"
        /\ last[t].how = "datagram" /\ last[t].len = RecvBufSize
        /\ last[t].src = cands[t][idx[t]]
        /\ Returned(t, SentPayload(last[t].src, RecvBufSize))

\* C2: a datagram of 35 bytes or fewer, a zero-length one included, never
\* yields a result; its candidate's socket sees one send and one receive at
\* most and is closed as the loop moves on; when it was the only candidate the
\* call fails with the all-attempts-failed error.
C2_ShortReplyAbandoned ==
    \A t \in Probes :
        /\ \A i \in DOMAIN ended[t] :
              (ended[t][i].src # NoSender /\ ended[t][i].len <= HeaderLen)
                  => ended[t][i].how = "short"
        /\ (success[t] \/ outcome[t].state = "value") => last[t].len > HeaderLen
        /\ sock[t].sends <= 1 /\ sock[t].recvs <= 1
        /\ stats[t].sends <= Len(ended[t]) + 1 /\ stats[t].recvs <= stats[t].sends
        /\ pc[t] = "loop" => (~sock[t].open /\ idx[t] = Len(ended[t]) + 1)
        /\ (Left(t) /\ Len(cands[t]) = 1 /\ Len(ended[t]) = 1
                /\ ended[t][1].src # NoSender /\ ended[t][1].len <= HeaderLen)
               => outcome[t].exc = AllFailedError(args[t].host, args[t].port)

C2_Witness ==
    \E t \in Probes :
        /\ Len(cands[t]) = 1 /\ Len(ended[t]) = 1
        /\ ended[t][1].how = "short" /\ ended[t][1].len = 0
        /\ ended[t][1].src = cands[t][1]
        /\ stats[t].sends = 1 /\ stats[t].recvs = 1
        /\ args[t].kind = "sync" /\ pc[t] = "done"
        /\ delivered[t][1].via = "raise" /\ delivered[t][1].exc.k = "all_failed"

\* C3: when getaddrinfo fails the call fails with the resolution error, not
\* the all-attempts-failed one, and the call creates no socket, sends no
\* datagram and performs no receive.
C3_ResolutionFailure ==
    \A t \in Probes :
        (Left(t) /\ node[t] # "" /\ \A r \in GaiResults(node[t]) : r.status # 0)
            => /\ outcome[t].state = "exception"
               /\ outcome[t].exc = DnsError
               /\ outcome[t].exc # AllFailedError(args[t].host, args[t].port)
               /\ stats[t] = NoStats /\ wire[t] = {} /\ ended[t] = << >>
               /\ ~sock[t].open /\ net = {}

C3_Witness ==
    \E t \in Probes :
        /\ args[t].host = "nx" /\ args[t].kind = "sync" /\ pc[t] = "done"
        /\ delivered[t][1].via = "raise" /\ delivered[t][1].exc.k = "dns"
        /\ stats[t].opened = 0

\* no datagram of a candidate's server reached the probe
NeverReplied(t) ==
    \A i \in DOMAIN ended[t] : ended[t][i].src \in {NoSender, StraySender}

\* the attempt on candidate i got as far as recvfrom, and recvfrom returned
\* neither a datagram nor an error
WaitedInVain(t) ==
    /\ stats[t].recvs = Len(cands[t])
    /\ \A i \in DOMAIN ended[t] : ended[t][i].src = NoSender /\ ended[t][i].how # "error"

\* C4 (as stated): when no server replies, a call (made with a positive
\* timeout) that fails with the all-attempts-failed error has seen a receive
\* timeout of the caller's duration expire on a candidate's socket.
C4_FailureOnlyAfterTimeout ==
    \A t \in Probes :
        (Failed(t) /\ NeverReplied(t) /\ args[t].timeout > 0)
            => \E i \in DOMAIN ended[t] :
                  /\ ended[t][i].how = "timeout"
                  /\ ended[t][i].wraps = 0
                  /\ ended[t][i].waited = args[t].timeout * 1000

\* C4 (amended): when no server replies, a receive that returns without a
\* datagram or an error returns only when the caller's (non-negative) timeout
\* has expired in full on that socket; so a call on which every candidate's
\* socket was created, configured and sent on, and on which no datagram
\* arrived and no receive failed, fails only after one full timeout per
\* candidate.
C4_TimeoutBeforeGivingUp ==
    \A t \in Probes :
        /\ \A i \in DOMAIN ended[t] :
              (ended[t][i].how = "timeout" /\ args[t].timeout >= 0)
                  => /\ args[t].timeout > 0
                     /\ ended[t][i].wraps = 0
                     /\ ended[t][i].waited = args[t].timeout * 1000
        /\ (Failed(t) /\ WaitedInVain(t) /\ args[t].timeout >= 0)
              => /\ args[t].timeout > 0
                 /\ \A i \in DOMAIN ended[t] :
                       /\ ended[t][i].how = "timeout"
                       /\ ended[t][i].waited = args[t].timeout * 1000

C4_Witness ==
    \E t \in Probes :
        /\ Failed(t) /\ NeverReplied(t)
        /\ args[t].timeout = 1250
        /\ Len(ended[t]) = 2
        /\ \A i \in DOMAIN ended[t] :
              ended[t][i].how = "timeout" /\ ended[t][i].waited = 1250000

\* the probe packet as documented
DocumentedProbe ==
    << 1, 0, 0, 0, 0, 255, 255, 193, 29, 0, 255, 255, 0, 254, 254, 254, 254,
       253, 253, 253, 253, 18, 52, 86, 120, 156, 24, 40, 127, 225, 100, 137, 141 >>

\* every datagram a probe has put on the wire, delivered or not
Transmitted == UNION {wire[t] : t \in Probes} \cup {d.data : d \in net}

\* C5: every datagram transmitted, by every call through every entry point
\* and whatever the host, port and timeout, is the documented 33-byte sequence.
C5_FixedProbe ==
    \A d \in Transmitted : Len(d) = 33 /\ d = DocumentedProbe

C5_Witness ==
    \E t \in Probes :
        /\ args[t].kind = "cont" /\ args[t].timeout = 1250
        /\ wire[t] = {DocumentedProbe}
        /\ \E d \in net : d.src = SockId(t) /\ d.data = DocumentedProbe

\* the fields of the unconnected ping
OfflineMagic ==
    << 0, 255, 255, 0, 254, 254, 254, 254, 253, 253, 253, 253, 18, 52, 86, 120 >>
ClientGuid == << 156, 24, 40, 127, 225, 100, 137, 141 >>
SentTimestamp == << 0, 0, 0, 0, 255, 255, 193, 29 >>

\* C6 (as stated): byte 0 is 0x01, the timestamp at offsets 1..8 is all zero,
\* offsets 9..24 hold the offline-message magic, offsets 25..32 the client GUID.
C6_ZeroTimestampLayout ==
    \A d \in Transmitted :
        /\ d[1] = 1
        /\ \A i \in 2..9 : d[i] = 0
        /\ SubSeq(d, 10, 25) = OfflineMagic
        /\ SubSeq(d, 26, 33) = ClientGuid

\* C6 (amended): byte 0 is 0x01, the timestamp at offsets 1..8 is the fixed
\* value 00 00 00 00 FF FF C1 1D, offsets 9..24 hold the offline-message
\* magic, offsets 25..32 the client GUID, and nothing follows.
C6_Layout ==
    \A d \in Transmitted :
        /\ Len(d) = 33
        /\ d[1] = 1
        /\ SubSeq(d, 2, 9) = SentTimestamp
        /\ SubSeq(d, 10, 25) = OfflineMagic
        /\ SubSeq(d, 26, 33) = ClientGuid

C6_Witness ==
    \E d \in net : d.dst[1] = "multi" /\ d.dst[2] = 2 /\ d.data[6] = 255

\* the continuation calls of a probe
Calls(t, via) == {k \in DOMAIN delivered[t] : delivered[t][k].via = via}

\* the server a concurrent probe was launched against
OwnServer(t) == <<ConcHost(t), 1>>

\* C7: of two continuation-based probes running concurrently against two
\* servers, each hands to its own success continuation the MOTD of its own
\* server and nothing else, and no byte in a probe's buffer or result was
\* received by the other, whatever the interleaving.
C7_OwnMotd ==
    \A t \in Probes :
        /\ \A k \in Calls(t, "onSuccess") :
              /\ \E len \in ReplyLens :
                    /\ len > HeaderLen
                    /\ delivered[t][k].value =
                          SubSeq(Datagram(OwnServer(t), len), HeaderLen + 1,
                                 Min(len, RecvBufSize))
              /\ \A i \in DOMAIN delivered[t][k].value :
                    delivered[t][k].value[i] = SenderByte(OwnServer(t), HeaderLen + i - 1)
        /\ \A i \in DOMAIN recvBuf[t].bytes :
              recvBuf[t].bytes[i] = SenderByte(OwnServer(t), i - 1)
        /\ \A i \in DOMAIN result[t] :
              result[t][i] = SenderByte(OwnServer(t), HeaderLen + i - 1)

C7_Witness ==
    /\ \A t \in Probes :
          /\ pc[t] = "done" /\ Calls(t, "onSuccess") = {1}
          /\ delivered[t][1].value = SentPayload(OwnServer(t), HeaderLen + 1)
    /\ delivered["p1"][1].value # delivered["p2"][1].value

\* C8 (as stated): for every caller timeout t the option value built for the
\* socket is seconds = t div 1000 and microseconds = (t mod 1000) * 1000 with
\* 0 <= microseconds < 1000000 (a DWORD of t milliseconds on Windows), and the
\* timeout configured on every candidate's socket is t exactly.
C8_EveryTimeout ==
    \A t \in Probes :
        /\ (tv[t].set /\ platform = "posix")
              => /\ tv[t].sec = args[t].timeout \div 1000
                 /\ tv[t].usec = (args[t].timeout % 1000) * 1000
                 /\ tv[t].usec >= 0 /\ tv[t].usec < 1000000
                 /\ tv[t].sec * 1000000 + tv[t].usec = args[t].timeout * 1000
        /\ (tv[t].set /\ platform = "win32")
              => tv[t].ms = args[t].timeout /\ tv[t].wraps = 0
        /\ sock[t].opt.mode # "unset"
              => sock[t].opt.us = args[t].timeout * 1000 /\ sock[t].opt.wraps = 0

\* C8 (amended): for every caller timeout t >= 0 the option value built for
\* the socket is seconds = t div 1000 and microseconds = (t mod 1000) * 1000
\* with 0 <= microseconds < 1000000 (a DWORD of t milliseconds on Windows),
\* and the timeout configured on every candidate's socket is t exactly,
\* whatever was waited on earlier candidates.
C8_TimeoutExact ==
    \A t \in Probes :
        args[t].timeout >= 0 =>
            /\ (tv[t].set /\ platform = "posix")
                  => /\ tv[t].sec = args[t].timeout \div 1000
                     /\ tv[t].usec = (args[t].timeout % 1000) * 1000
                     /\ tv[t].usec >= 0 /\ tv[t].usec < 1000000
                     /\ tv[t].sec * 1000000 + tv[t].usec = args[t].timeout * 1000
            /\ (tv[t].set /\ platform = "win32")
                  => tv[t].ms = args[t].timeout /\ tv[t].wraps = 0
            /\ sock[t].opt.mode # "unset"
                  => sock[t].opt.us = args[t].timeout * 1000 /\ sock[t].opt.wraps = 0

C8_Witness ==
    \E t \in Probes :
        /\ platform = "posix" /\ args[t].timeout = 1250
        /\ idx[t] = 2 /\ ended[t][1].how = "timeout" /\ ended[t][1].waited = 1250000
        /\ sock[t].open /\ sock[t].opt.mode = "timed" /\ sock[t].opt.us = 1250000
        /\ tv[t].sec = 1 /\ tv[t].usec = 250000

\* the continuation thread of t has run to its end
ContDone(t) == args[t].kind = "cont" /\ pc[t] = "done"

\* a failure was raised on the thread of t: by the probe routine or by the
\* success continuation
Raised(t) == outcome[t].state = "exception" \/ caught[t] # NoExc

\* C9: every failure raised on the background thread ends in a call of the
\* error continuation; none leaves the thread, terminates the process or is
\* dropped, whatever continuations the caller supplied.
C9_FailureReachesOnError ==
    /\ ~terminated
    /\ \A t \in Probes : (ContDone(t) /\ Raised(t)) => Calls(t, "onError") # {}

\* C10: a continuation-based probe calls exactly one of its continuations,
\* once: the success continuation iff the probe routine succeeded, the error
\* continuation iff it failed, never both.
C10_ExactlyOneContinuation ==
    \A t \in Probes :
        args[t].kind = "cont" =>
            /\ Cardinality(Calls(t, "onSuccess")) + Cardinality(Calls(t, "onError")) <= 1
            /\ Calls(t, "onSuccess") # {} => outcome[t].state = "value"
            /\ Calls(t, "onError") # {} => outcome[t].state = "exception"
            /\ pc[t] \in {"done", "terminate"}
                  => /\ outcome[t].state = "value" => Calls(t, "onSuccess") # {}
                     /\ outcome[t].state = "exception" => Calls(t, "onError") # {}

\* the entry point of t has handed to its caller what the probe routine
\* returned or threw
HandsOver(t) ==
    CASE args[t].kind = "sync" ->
            delivered[t] = << Delivery(IF outcome[t].state = "value"
                                       THEN "return" ELSE "raise", outcome[t]) >>
      [] args[t].kind = "future" ->
            delivered[t] = << Delivery(IF outcome[t].state = "value"
                                       THEN "get_value" ELSE "get_raise", outcome[t]) >>
      [] args[t].kind = "cont" ->
            /\ (outcome[t].state = "value" /\ args[t].onSuccess = "set")
                  => delivered[t][1] = Delivery("onSuccess", outcome[t])
            /\ (outcome[t].state = "exception" /\ args[t].onError = "set")
                  => delivered[t] = << ErrorDelivery(outcome[t].exc) >>
      [] OTHER -> TRUE

\* the names the probe routine may resolve when the arguments a are passed to
\* the entry point k
NamesVia(k, a) == CStr(ImplHost([a EXCEPT !.kind = k]))

\* C11: whatever the entry point, the probe routine is run on the same
\* arguments (the same host characters reach address resolution as through
\* either other entry point), and what it returns or throws is what the
\* blocking call returns or raises, what waiting on the deferred handle yields
\* or re-raises, and what the continuations are called with.
C11_SameOutcome ==
    \A t \in Probes :
        /\ pc[t] = "done" => HandsOver(t)
        /\ node[t] # "" => \A k \in Kinds : NamesVia(k, args[t]) = {node[t]}
        /\ (Left(t) /\ outcome[t].exc = DnsError)
              => \A r \in GaiResults(args[t].host) : GaiFailed(r.status)

\* the candidates on whose socket a datagram longer than 35 bytes arrived
LongReplies(t) ==
    {i \in DOMAIN ended[t] : ended[t][i].src # NoSender /\ ended[t][i].len > HeaderLen}

\* those of them whose datagram recvfrom hands over: Winsock refuses one that
\* is longer than the receive buffer
UsableReplies(t) ==
    {i \in LongReplies(t) : platform = "win32" => ended[t][i].len <= RecvBufSize}

Lowest(S) == CHOOSE i \in S : \A j \in S : i <= j

\* the payload of the datagram received on candidate i, as far as the receive
\* buffer holds it
ReceivedPayload(t, i) ==
    SubSeq(Datagram(ended[t][i].src, ended[t][i].len), HeaderLen + 1,
           Min(ended[t][i].len, RecvBufSize))

\* the attempts that got a socket
WithSocket(t) == {i \in DOMAIN ended[t] : ended[t][i].how # "nosocket"}

\* C12 (as stated): a call yields a result iff a datagram longer than 35
\* bytes arrived on some candidate's socket; the result is the payload
\* received on the first such candidate, and no later candidate is attempted.
C12_FirstLongReplyWins ==
    \A t \in Probes :
        Left(t) =>
            /\ outcome[t].state = "value" <=> LongReplies(t) # {}
            /\ LongReplies(t) # {}
                  => /\ outcome[t].value = ReceivedPayload(t, Lowest(LongReplies(t)))
                     /\ Len(ended[t]) = Lowest(LongReplies(t))

\* C12 (amended): a call yields zero or one result, one iff a datagram longer
\* than 35 bytes (and, on Windows, no longer than the 1024-byte receive
\* buffer) arrived on some candidate's socket; the result is the payload
\* received on the first such candidate, in resolution order, and from that
\* candidate's success on no later candidate is attempted: no socket is
\* created, no datagram sent and no receive performed for one.
C12_FirstUsableReplyWins ==
    \A t \in Probes :
        /\ Left(t) =>
              /\ outcome[t].state = "value" <=> UsableReplies(t) # {}
              /\ UsableReplies(t) # {}
                    => /\ outcome[t].value = ReceivedPayload(t, Lowest(UsableReplies(t)))
                       /\ Len(ended[t]) = Lowest(UsableReplies(t))
        /\ success[t] =>
              /\ UsableReplies(t) = {Len(ended[t])}
              /\ idx[t] = Len(ended[t])
              /\ pc[t] \notin {"loop", "setsockopt", "sendto", "recvfrom", "check"}
              /\ ~sock[t].open
              /\ stats[t].opened = Cardinality(WithSocket(t))
              /\ stats[t].sends <= stats[t].opened /\ stats[t].recvs <= stats[t].sends
              /\ \A d \in net : d.src[1] # t

C12_Witness ==
    \E t \in Probes :
        /\ Len(cands[t]) = 2 /\ Len(ended[t]) = 1
        /\ ended[t][1].how = "ok" /\ ended[t][1].src = cands[t][1]
        /\ outcome[t].state = "value"
        /\ outcome[t].value = SentPayload(cands[t][1], HeaderLen + 1)
        /\ stats[t] = [opened |-> 1, closed |-> 1, sends |-> 1, recvs |-> 1, freed |-> 1]

Open(t) == IF sock[t].open THEN 1 ELSE 0

\* the sockets of t are balanced: as many opened as closed, the current one
\* apart, one per attempt that got one, never more than resolved addresses
Balanced(t) ==
    /\ stats[t].opened = stats[t].closed + Open(t)
    /\ stats[t].opened = Cardinality(WithSocket(t)) + Open(t)
    /\ stats[t].opened <= Len(cands[t])
    /\ Left(t) => (stats[t].opened = stats[t].closed /\ ~sock[t].open)

\* C13 (as stated): the sockets opened are as many as the sockets closed and
\* no more than the resolved addresses, and every socket that was opened and
\* closed saw exactly one send and at most one receive.
C13_OneSendPerSocket ==
    \A t \in Probes :
        /\ Balanced(t)
        /\ \A i \in WithSocket(t) : ended[t][i].sends = 1 /\ ended[t][i].recvs <= 1

\* C13 (amended): the sockets opened are as many as the sockets closed and no
\* more than the resolved addresses; on every socket that was opened at most
\* one send and at most one receive is performed, the receive only after the
\* send: exactly one send unless setting the receive timeout failed, in which
\* case the socket is closed with nothing sent or received on it.
C13_SocketUse ==
    \A t \in Probes :
        /\ Balanced(t)
        /\ \A i \in WithSocket(t) :
              /\ ended[t][i].sends = (IF ended[t][i].how = "sockopt" THEN 0 ELSE 1)
              /\ ended[t][i].recvs <= ended[t][i].sends
              /\ ended[t][i].recvs = 1 <=> ended[t][i].how \notin {"sockopt", "send"}
        /\ \A i \in DOMAIN ended[t] \ WithSocket(t) :
              ended[t][i].sends = 0 /\ ended[t][i].recvs = 0
        /\ sock[t].sends <= 1 /\ sock[t].recvs <= sock[t].sends
        /\ stats[t].sends =
              Cardinality({i \in DOMAIN ended[t] : ended[t][i].sends = 1}) + sock[t].sends
        /\ stats[t].recvs =
              Cardinality({i \in DOMAIN ended[t] : ended[t][i].recvs = 1}) + sock[t].recvs

C13_Witness ==
    \E t \in Probes :
        /\ Left(t) /\ Len(cands[t]) = 2 /\ Len(ended[t]) = 2
        /\ ended[t][1].how = "sockopt" /\ ended[t][1].sends = 0
        /\ ended[t][2].how = "timeout" /\ ended[t][2].sends = 1 /\ ended[t][2].recvs = 1
        /\ stats[t] = [opened |-> 2, closed |-> 2, sends |-> 1, recvs |-> 1, freed |-> 1]

\* the ways an attempt ends by which a socket is closed
ExitPaths == {"ok", "sockopt", "send", "timeout", "error", "short", "oversize"}

\* C14: at every point of a call at most one socket is open; when the loop is
\* about to create a candidate's socket the previous candidate's is closed;
\* every attempt that got a socket has closed it, however it ended (success,
\* socket-option failure, send failure, receive timeout or error, undersized
\* reply); and no socket is open once the loop is left, by success or by
\* exhaustion, nor when the call has returned or failed.
C14_OneSocketAtATime ==
    \A t \in Probes :
        /\ stats[t].opened - stats[t].closed = Open(t)
        /\ stats[t].opened - stats[t].closed <= 1
        /\ sock[t].open => (pc[t] \in {"setsockopt", "sendto", "recvfrom", "check"}
                               /\ Len(ended[t]) = idx[t] - 1)
        /\ pc[t] = "loop" => stats[t].opened = stats[t].closed
        /\ \A i \in DOMAIN ended[t] :
              /\ ended[t][i].how \in ExitPaths \cup {"nosocket"}
              /\ ended[t][i].how \in ExitPaths
                    => Cardinality({j \in 1..i : ended[t][j].how \in ExitPaths})
                           <= stats[t].closed
        /\ stats[t].closed = Cardinality({i \in DOMAIN ended[t] : ended[t][i].how \in ExitPaths})
        /\ (pc[t] \in {"after", "ret", "done", "catch", "terminate"} \/ Left(t))
              => (stats[t].opened = stats[t].closed /\ ~sock[t].open)

C14_Witness ==
    \E t \in Probes :
        /\ Left(t) /\ Failed(t) /\ Len(cands[t]) = 2 /\ Len(ended[t]) = 2
        /\ ended[t][1].how = "send" /\ ended[t][2].how = "short"
        /\ stats[t].opened = 2 /\ stats[t].closed = 2 /\ ~sock[t].open

\* where the loop reads the candidate list: addr->ai_family, addr->ai_addr,
\* addr->ai_next
ReadsList(t) == pc[t] \in {"loop", "setsockopt", "sendto", "recvfrom", "check"}

\* C15: the list a successful getaddrinfo returned is freed exactly once, on
\* the way out of the routine, whether it returns a result or throws the
\* all-attempts-failed error; it is live wherever the loop reads a candidate,
\* and a failed resolution leaves no list to free.
C15_ListFreedOnce ==
    \A t \in Probes :
        /\ stats[t].freed <= 1
        /\ res[t] = "freed" <=> stats[t].freed = 1
        /\ (ReadsList(t) \/ pc[t] = "after")
              => (res[t] = "live" /\ stats[t].freed = 0 /\ cands[t] # << >>)
        /\ res[t] = "freed" => (Left(t) /\ ~ReadsList(t))
        /\ Left(t) =>
              IF outcome[t].exc \in {DnsError, WsaError}
              THEN res[t] = "null" /\ stats[t].freed = 0 /\ cands[t] = << >>
              ELSE res[t] = "freed" /\ stats[t].freed = 1

C15_Witness ==
    \E t \in Probes :
        /\ args[t].kind = "cont" /\ pc[t] = "done"
        /\ Failed(t) /\ Len(ended[t]) = 1 /\ ended[t][1].how = "timeout"
        /\ res[t] = "freed" /\ stats[t].freed = 1

\* the attempt on candidate i failed: no socket, no socket option, no send,
\* a receive timeout, a receive error or a reply too short
FailedAttempt(t, i) == ended[t][i].how # "ok"

\* a failed attempt on a candidate that is not the last is followed by the
\* attempt on the next candidate
LoopGoesOn(t) ==
    \A i \in DOMAIN ended[t] :
        (FailedAttempt(t, i) /\ i < Len(cands[t]))
            => (Len(ended[t]) > i \/ (idx[t] = i + 1 /\ ReadsList(t)))

\* the all-attempts-failed error is thrown when every candidate was tried and
\* failed; a reply longer than 35 bytes received on a candidate makes the call
\* succeed, whatever failed before
Exhaustion(t) ==
    /\ Failed(t) <=> (Left(t) /\ Len(ended[t]) = Len(cands[t]) /\ cands[t] # << >>
                        /\ \A i \in DOMAIN ended[t] : FailedAttempt(t, i))
    /\ outcome[t].state = "value"
          <=> (Left(t) /\ ended[t] # << >> /\ ~FailedAttempt(t, Len(ended[t])))
    /\ Failed(t) => outcome[t].exc = AllFailedError(args[t].host, args[t].port)

\* C16 (as stated): a failed attempt only advances the loop, a later reply of
\* more than 35 bytes makes the call succeed, and the only failures leaving
\* the routine are the resolution error and the all-attempts-failed error.
C16_TwoFailuresOnly ==
    \A t \in Probes :
        /\ LoopGoesOn(t)
        /\ Exhaustion(t)
        /\ outcome[t].state = "exception"
              => outcome[t].exc \in {DnsError, AllFailedError(args[t].host, args[t].port)}

\* C16 (amended): a failed attempt only advances the loop, a later reply of
\* more than 35 bytes makes the call succeed, and the failures leaving the
\* routine are the resolution error, the all-attempts-failed error raised
\* after every candidate was tried and, on Windows, the failure of WSAStartup
\* in the first call, raised before anything is resolved or opened.
C16_FailuresLeaving ==
    \A t \in Probes :
        /\ LoopGoesOn(t)
        /\ Exhaustion(t)
        /\ outcome[t].state = "exception"
              => outcome[t].exc \in {DnsError, WsaError,
                                     AllFailedError(args[t].host, args[t].port)}
        /\ outcome[t].exc = WsaError
              => (platform = "win32" /\ node[t] = "" /\ stats[t] = NoStats
                    /\ cands[t] = << >>)
        /\ outcome[t].exc = DnsError
              => (node[t] # "" /\ stats[t] = NoStats /\ cands[t] = << >>)

C16_Witness ==
    \E t \in Probes :
        /\ Len(cands[t]) = 2 /\ Len(ended[t]) = 2
        /\ ended[t][1].how = "timeout" /\ ended[t][2].how = "ok"
        /\ ended[t][2].src = cands[t][2]
        /\ outcome[t].state = "value"
        /\ outcome[t].value = SentPayload(cands[t][2], HeaderLen + 1)

\* one step of the program as the attempts of t see it
InOrderStep(t) ==
    /\ idx'[t] = idx[t] \/ idx'[t] = idx[t] + 1
    /\ \/ ended'[t] = ended[t]
       \/ /\ Len(ended'[t]) = Len(ended[t]) + 1
          /\ SubSeq(ended'[t], 1, Len(ended[t])) = ended[t]
          /\ Len(ended'[t]) = idx[t]
          /\ ended'[t][idx[t]].cand = cands[t][idx[t]]
          /\ ~sock'[t].open
          /\ ended'[t][idx[t]].how # "ok" => idx'[t] = idx[t] + 1
    /\ idx'[t] = idx[t] + 1
          => (Len(ended'[t]) = idx[t] /\ ended[t] # ended'[t]
                /\ ended'[t][idx[t]].how # "ok")
    /\ (sock'[t].open /\ ~sock[t].open)
          => /\ Len(ended[t]) = idx[t] - 1
             /\ idx'[t] = idx[t] /\ idx[t] <= Len(cands[t])
             /\ \A j \in DOMAIN ended[t] : FailedAttempt(t, j)
    /\ \A d \in net' \ net :
          d.src[1] = t => (d.src = <<t, idx[t]>> /\ d.dst = cands[t][idx[t]]
                             /\ Len(ended[t]) = idx[t] - 1)

\* C17: the candidates are attempted one after another in resolution order,
\* each once at most: the k-th attempt to end is the one on candidate k, a
\* socket is created and a probe sent for candidate i+1 only when the attempts
\* on candidates 1..i have all ended without a result, and the loop never
\* steps back or over a candidate.
C17_InOrder == [][\A t \in Probes : InOrderStep(t)]_vars

C17_Witness ==
    \E t \in Probes :
        /\ Len(cands[t]) = 2 /\ Len(ended[t]) = 1 /\ idx[t] = 2
        /\ ended[t][1].how = "timeout" /\ ended[t][1].cand = cands[t][1]
        /\ sock[t].open /\ pc[t] = "recvfrom"
        /\ \E d \in net : d.src = <<t, 2>> /\ d.dst = cands[t][2]

\* C18: every call that has entered the probe routine leaves it in the end,
\* with a result or a failure, whatever the timeout passed, 0 milliseconds
\* included, and whether or not any datagram arrives.
C18_EveryCallEnds == \A t \in Probes : (pc[t] = "start") ~> Left(t)

\* C19: the payload a call returns was carried by a datagram sent by the
\* candidate the probe was sent to: every attempt that ended with a result
\* received its datagram from its own candidate, and the bytes returned are
\* bytes that candidate sent.
C19_FromCandidate ==
    \A t \in Probes :
        /\ \A i \in DOMAIN ended[t] :
              ended[t][i].how = "ok" => ended[t][i].src = ended[t][i].cand
        /\ outcome[t].state = "value"
              => \A i \in DOMAIN outcome[t].value :
                    outcome[t].value[i] = SenderByte(cands[t][idx[t]], HeaderLen + i - 1)

\* C20: the name a call hands to getaddrinfo is exactly the characters of its
\* host argument, whatever the entry point and whatever follows those
\* characters in memory.
C20_ExactName ==
    \A t \in Probes : node[t] # "" => node[t] = args[t].host

====
